---- MODULE Spec2Model ----
(***************************************************************************)
(* Model of omniledger/service/transaction.go: the Instruction digests,    *)
(* the darc request derivation, the signing of instructions, the lookup    *)
(* of contract state, and the salted ordering of client transactions.      *)
(*                                                                         *)
(* Byte strings are sequences of naturals 0..255.  Go strings are byte     *)
(* strings too (sequences of ASCII codes), so that "spawn:" + ContractID   *)
(* and []byte(what) are the concatenations the code performs.  A Go int    *)
(* (64 bits) is its 8 little-endian bytes, so that uint32(x) is the        *)
(* truncation the code performs.                                           *)
(***************************************************************************)
EXTENDS Integers, Sequences, FiniteSets, TLC

VARIABLES
    instr,      \* the Instruction the methods are called upon
    ret,        \* the last call on instr: its name, its input and what it returned
    ts,         \* the []ClientTransaction handed to sortTransactions
    tsBefore,   \* ts as it was when sortTransactions was last called
    sortRet     \* the last call of sortTransactions: its fault input and its error

vars == <<instr, ret, ts, tsBefore, sortRet>>

(***************************************************************************)
(* Bounds of the model.                                                    *)
(***************************************************************************)
\* bytes of a digest (sha256.Size is 32 in the program)
DigestLen == 2
\* bytes of a Nonce (32 in the program)
NonceLen == 2
\* most client transactions in the slice given to sortTransactions
MaxTxs == 3
\* most signers given to one SignBy call
MaxSigners == 2

NoErr == "nil"

(***************************************************************************)
(* Bytes.                                                                  *)
(***************************************************************************)
RECURSIVE XorByte(_, _)
XorByte(a, b) ==
    IF a = 0 THEN b
    ELSE IF b = 0 THEN a
    ELSE ((a + b) % 2) + 2 * XorByte(a \div 2, b \div 2)

RECURSIVE Concat(_)
Concat(ss) == IF ss = <<>> THEN <<>> ELSE Head(ss) \o Concat(Tail(ss))

\* bytes.Compare(a, b) == -1 : lexicographic order of byte strings
RECURSIVE BytesLess(_, _)
BytesLess(a, b) ==
    IF b = <<>> THEN FALSE
    ELSE IF a = <<>> THEN TRUE
    ELSE IF Head(a) # Head(b) THEN Head(a) < Head(b)
    ELSE BytesLess(Tail(a), Tail(b))

(***************************************************************************)
(* sha256: a fixed-length digest of a byte string.  Byte k of the digest   *)
(* is the root of a hash tree over the 4-byte blocks of the input, built   *)
(* with its own multiplier and mixed with the input's length, so every     *)
(* digest byte depends on every input byte and on its position.            *)
(***************************************************************************)
\* byte j of s, counted from 1, or 0 past its end
At(s, j) == IF j <= Len(s) THEN s[j] + 1 ELSE 0

\* the hash of the blocks lo..hi of s
RECURSIVE Tree(_, _, _, _)
Tree(mult, s, lo, hi) ==
    IF lo > hi THEN 0
    ELSE IF lo = hi
    THEN (((At(s, 4 * lo - 3) * mult + At(s, 4 * lo - 2)) * mult
              + At(s, 4 * lo - 1)) * mult + At(s, 4 * lo)) % 251
    ELSE LET mid == (lo + hi) \div 2
         IN  (Tree(mult, s, lo, mid) * mult + Tree(mult, s, mid + 1, hi) + 1) % 251

Sha256(s) ==
    [k \in 1..DigestLen |->
        (Tree(29 + 2 * k, s, 1, (Len(s) + 3) \div 4) + k * Len(s)) % 251]

(***************************************************************************)
(* Go int: 8 little-endian bytes (two's complement).                       *)
(***************************************************************************)
GoInt(lo, hi) == <<lo, 0, 0, 0, hi, 0, 0, 0>>

\* uint32(x) followed by binary.LittleEndian.PutUint32: the low 4 bytes
PutUint32(x) == SubSeq(x, 1, 4)

(***************************************************************************)
(* Go strings used by the program, as their ASCII bytes.                   *)
(***************************************************************************)
StrSpawn == <<115, 112, 97, 119, 110, 58>>          \* "spawn:"
StrInvoke == <<105, 110, 118, 111, 107, 101, 58>>   \* "invoke:"
StrDelete == <<68, 101, 108, 101, 116, 101>>        \* "Delete"
StrInvalid == <<105, 110, 118, 97, 108, 105, 100>>  \* "invalid"
StrUEvolve == <<95, 101, 118, 111, 108, 118, 101>>  \* "_evolve"
StrDarc == <<100, 97, 114, 99>>                     \* "darc"

\* strings the callers pass in
StrEvolve == <<101, 118, 111, 108, 118, 101>>       \* "evolve"
StrTransfer == <<116, 114, 97, 110, 115, 102, 101, 114>> \* "transfer"
StrCoin == <<99, 111, 105, 110>>                    \* "coin"
StrSpawnCoin == StrSpawn \o StrCoin                 \* "spawn:coin"
StrSpawnDarc == StrSpawn \o StrDarc                 \* "spawn:darc"

(***************************************************************************)
(* The types.  A nil pointer is Nil; a set pointer is the record it        *)
(* points to.                                                              *)
(***************************************************************************)
Nil == [ptr |-> "nil"]

\* type Nonce [32]byte
Nonce(v) == [i \in 1..NonceLen |-> v]

\* type ObjectID struct
ObjectID(darcID, instanceID) == [DarcID |-> darcID, InstanceID |-> instanceID]

\* type Argument struct
Argument(name, value) == [Name |-> name, Value |-> value]

\* type Spawn struct
Spawn(contractID, args) == [ContractID |-> contractID, Args |-> args]

\* type Invoke struct
Invoke(command, args) == [Command |-> command, Args |-> args]

\* type Delete struct {}
Delete == [deleted |-> TRUE]

\* type Instruction struct
Instruction(oid, nonce, index, length, spawn, invoke, delete, sigs) ==
    [ObjectID |-> oid, Nonce |-> nonce, Index |-> index, Length |-> length,
     Spawn |-> spawn, Invoke |-> invoke, Delete |-> delete, Signatures |-> sigs]

\* func (oid ObjectID) Slice() []byte
Slice(oid) == oid.DarcID \o oid.InstanceID

\* func (args Arguments) Search(name string) []byte : nil (the empty byte
\* string) when no argument has the name
RECURSIVE Search(_, _)
Search(args, name) ==
    IF args = <<>> THEN <<>>
    ELSE IF Head(args).Name = name THEN Head(args).Value
    ELSE Search(Tail(args), name)

(***************************************************************************)
(* Instruction.Hash                                                        *)
(***************************************************************************)
RECURSIVE ArgsBytes(_)
ArgsBytes(args) ==
    IF args = <<>> THEN <<>>
    ELSE Head(args).Name \o Head(args).Value \o ArgsBytes(Tail(args))

\* everything Hash writes into the running sha256, in order
HashInput(i) ==
    i.ObjectID.DarcID \o i.ObjectID.InstanceID \o i.Nonce
        \o PutUint32(i.Index) \o PutUint32(i.Length)
        \o (IF i.Spawn # Nil THEN <<0>> \o i.Spawn.ContractID \o ArgsBytes(i.Spawn.Args)
            ELSE IF i.Invoke # Nil THEN <<1>> \o ArgsBytes(i.Invoke.Args)
            ELSE IF i.Delete # Nil THEN <<2>>
            ELSE <<>>)

Hash(i) == Sha256(HashInput(i))

(***************************************************************************)
(* Instruction.DeriveID                                                    *)
(***************************************************************************)
RECURSIVE SignatureBytes(_)
SignatureBytes(sigs) ==
    IF sigs = <<>> THEN <<>>
    ELSE Head(sigs).Signature \o SignatureBytes(Tail(sigs))

\* everything DeriveID writes into the running sha256, in order
DeriveIDInput(i, what) == what \o Hash(i) \o SignatureBytes(i.Signatures)

\* copy(iid[:], sum): as many bytes as both hold, the rest of iid stays 0
CopyToNonce(sum) ==
    [k \in 1..NonceLen |-> IF k <= Len(sum) THEN sum[k] ELSE 0]

\* DeriveID with line 160 of the source in force: the signers are written too
DeriveIDWithSigners(i, what) ==
    ObjectID(i.ObjectID.DarcID,
             CopyToNonce(Sha256(what \o Hash(i)
                 \o Concat([k \in 1..Len(i.Signatures) |->
                               i.Signatures[k].Signer \o i.Signatures[k].Signature]))))

DeriveID(i, what) ==
    ObjectID(i.ObjectID.DarcID, CopyToNonce(Sha256(DeriveIDInput(i, what))))

(***************************************************************************)
(* Instruction.Action and Instruction.GetType                              *)
(***************************************************************************)
Action(i) ==
    IF i.Spawn # Nil THEN StrSpawn \o i.Spawn.ContractID
    ELSE IF i.Invoke # Nil THEN StrInvoke \o i.Invoke.Command
    ELSE IF i.Delete # Nil THEN StrDelete
    ELSE StrInvalid

InvalidInstrType == 0
SpawnType == 1
InvokeType == 2
DeleteType == 3

GetType(i) ==
    IF i.Spawn # Nil /\ i.Invoke = Nil /\ i.Delete = Nil THEN SpawnType
    ELSE IF i.Spawn = Nil /\ i.Invoke # Nil /\ i.Delete = Nil THEN InvokeType
    ELSE IF i.Spawn = Nil /\ i.Invoke = Nil /\ i.Delete # Nil THEN DeleteType
    ELSE InvalidInstrType

(***************************************************************************)
(* The darc package, as far as transaction.go uses it.                     *)
(***************************************************************************)
\* a darc.Signer: its identity, its key, and whether its Sign fails
Signer(id, key, fails) == [id |-> id, key |-> key, fails |-> fails]

\* Signer.Identity()
Identity(s) == s.id

\* the zero darc.Identity
ZeroIdentity == <<>>

\* Signer.Sign(digest): the signature bytes are bound to the key and the digest
Sign(s, digest) ==
    IF s.fails THEN [sig |-> <<>>, err |-> "sign"]
    ELSE [sig |-> <<s.key>> \o digest, err |-> NoErr]

\* darc.Signature
Signature(signer, sig) == [Signer |-> signer, Signature |-> sig]

\* darc.InitRequest
InitRequest(baseID, action, msg, ids, sigs) ==
    [BaseID |-> baseID, Action |-> action, Msg |-> msg,
     Identities |-> ids, Signatures |-> sigs]

\* darc.Request.Hash: base ID, action, message and identities, not the signatures
RequestHash(req) ==
    Sha256(req.BaseID \o req.Action \o req.Msg \o Concat(req.Identities))

\* a serialized darc: the byte 68 followed by a non-empty content
DarcBuf(content) == <<68>> \o content

\* darc.NewFromProtobuf
NewFromProtobuf(buf) ==
    IF Len(buf) >= 2 /\ buf[1] = 68
    THEN [darc |-> [content |-> Tail(buf)], err |-> NoErr]
    ELSE [darc |-> Nil, err |-> "decode"]

\* Darc.GetID
GetID(d) == Sha256(d.content)

(***************************************************************************)
(* Instruction.ToDarcRequest                                               *)
(* (A value used more than once is passed as an argument of a local        *)
(* operator, here and below, so that it is evaluated once.)                *)
(***************************************************************************)
\* ToDarcRequest filling ids and sigs from the last signature to the first
ToDarcRequestBackwards(i) ==
    LET n == Len(i.Signatures)
    IN  [req |-> InitRequest(i.ObjectID.DarcID, Action(i), Hash(i),
                             [k \in 1..n |-> i.Signatures[n + 1 - k].Signer],
                             [k \in 1..n |-> i.Signatures[n + 1 - k].Signature]),
         err |-> NoErr, panic |-> FALSE]

ToDarcRequest(i) ==
    LET ids == [k \in 1..Len(i.Signatures) |-> i.Signatures[k].Signer]
        sigs == [k \in 1..Len(i.Signatures) |-> i.Signatures[k].Signature]
        Evolve(baseID, action, d) ==
            IF d.err # NoErr
            THEN [req |-> Nil, err |-> d.err, panic |-> FALSE]
            ELSE [req |-> InitRequest(baseID, action, GetID(d.darc), ids, sigs),
                  err |-> NoErr, panic |-> FALSE]
        Request(baseID, action) ==
            IF action = StrUEvolve
            THEN IF i.Invoke = Nil
                 \* instr.Invoke.Args on a nil Invoke
                 THEN [req |-> Nil, err |-> NoErr, panic |-> TRUE]
                 ELSE Evolve(baseID, action,
                             NewFromProtobuf(Search(i.Invoke.Args, StrDarc)))
            ELSE [req |-> InitRequest(baseID, action, Hash(i), ids, sigs),
                  err |-> NoErr, panic |-> FALSE]
    IN  Request(i.ObjectID.DarcID, Action(i))

(***************************************************************************)
(* Instruction.SignBy                                                      *)
(***************************************************************************)
\* the first signer whose Sign fails, or one past the last signer
FirstFailing(signers) ==
    LET Least(failing) ==
            IF failing = {} THEN Len(signers) + 1
            ELSE CHOOSE k \in failing : \A l \in failing : k <= l
    IN  Least({k \in 1..Len(signers) : signers[k].fails})

\* SignBy appending to instr.Signatures what it would have assigned to it
SignByAppending(i, signers) ==
    LET n == Len(signers)
        Loop(digest, f) ==
            [instr |-> [i EXCEPT !.Signatures =
                           i.Signatures \o
                           [k \in 1..n |->
                               IF k < f
                               THEN Signature(Identity(signers[k]),
                                              Sign(signers[k], digest).sig)
                               ELSE Signature(ZeroIdentity, <<>>)]],
             err |-> IF f <= n THEN "sign" ELSE NoErr,
             panic |-> FALSE,
             digests |-> [k \in 1..(IF f <= n THEN f ELSE n) |-> digest]]
    IN  Loop(RequestHash(ToDarcRequest(
                 [i EXCEPT !.Signatures =
                     [k \in 1..n |-> Signature(Identity(signers[k]), <<>>)]]).req),
             FirstFailing(signers))

\* SignBy handing the signers the hash of the instruction, not of the request
SignByInstructionHash(i, signers) ==
    LET n == Len(signers)
        f == FirstFailing(signers)
    IN  [instr |-> [i EXCEPT !.Signatures =
                       [k \in 1..n |->
                           IF k < f
                           THEN Signature(Identity(signers[k]), Sign(signers[k], Hash(i)).sig)
                           ELSE Signature(ZeroIdentity, <<>>)]],
         err |-> IF f <= n THEN "sign" ELSE NoErr,
         panic |-> FALSE,
         digests |-> [k \in 1..(IF f <= n THEN f ELSE n) |-> Hash(i)]]

SignBy(i, signers) ==
    LET n == Len(signers)
        \* the second loop: the signers sign the digest in turn, up to the
        \* first f whose Sign fails; the slots from f on keep their zero value
        Loop(digest, f) ==
            [instr |-> [i EXCEPT !.Signatures =
                           [k \in 1..n |->
                               IF k < f
                               THEN Signature(Identity(signers[k]),
                                              Sign(signers[k], digest).sig)
                               ELSE Signature(ZeroIdentity, <<>>)]],
             err |-> IF f <= n THEN "sign" ELSE NoErr,
             panic |-> FALSE,
             \* what each call of Sign was given, in call order
             digests |-> [k \in 1..(IF f <= n THEN f ELSE n) |-> digest]]
        \* i1 is the instruction with the identities set, r its request
        Signed(i1, r) ==
            IF r.panic
            THEN [instr |-> i1, err |-> NoErr, panic |-> TRUE, digests |-> <<>>]
            ELSE IF r.err # NoErr
            THEN [instr |-> i1, err |-> r.err, panic |-> FALSE, digests |-> <<>>]
            ELSE Loop(RequestHash([r.req EXCEPT
                          !.Identities = [k \in 1..n |-> Identity(signers[k])]]),
                      FirstFailing(signers))
        Prepared(i1) == Signed(i1, ToDarcRequest(i1))
    IN  Prepared([i EXCEPT !.Signatures =
                     [k \in 1..n |-> Signature(Identity(signers[k]), <<>>)]])

(***************************************************************************)
(* Instruction.GetContractState and the collection it reads.               *)
(***************************************************************************)
\* one value of a record: a []byte or something else
Bytes(v) == [type |-> "bytes", v |-> v]
NotBytes(v) == [type |-> "string", v |-> v]

\* what the collection holds under one key
Absent == [kind |-> "absent", values |-> <<>>]
Broken == [kind |-> "broken", values |-> <<>>]
Undecodable == [kind |-> "undecodable", values |-> <<>>]
Stored(values) == [kind |-> "stored", values |-> values]

\* a CollectionView holding one key
Collection(key, entry) == [key |-> key, entry |-> entry]

\* coll.Get(key)
Get(coll, key) == IF key = coll.key THEN coll.entry ELSE Absent

\* Getter.Record()
Record(kv) ==
    IF kv.kind = "broken" THEN [record |-> kv, err |-> "record"]
    ELSE [record |-> kv, err |-> NoErr]

\* Record.Values()
Values(record) ==
    IF record.kind = "absent" THEN [cv |-> <<>>, err |-> "not-found"]
    ELSE IF record.kind = "undecodable" THEN [cv |-> <<>>, err |-> "decode"]
    ELSE [cv |-> record.values, err |-> NoErr]

GetContractState(i, coll) ==
    LET none == <<>>
        Found(cv) ==
            \* cv[1].([]byte): index out of range, or a failed type assertion
            IF Len(cv) < 2 \/ cv[2].type # "bytes"
            THEN [contractID |-> none, state |-> none, err |-> NoErr, panic |-> TRUE]
            \* cv[0].([]byte)
            ELSE IF cv[1].type # "bytes"
            THEN [contractID |-> cv[2].v, state |-> none, err |-> NoErr, panic |-> TRUE]
            ELSE [contractID |-> cv[2].v, state |-> cv[1].v,
                  err |-> NoErr, panic |-> FALSE]
        Decoded(vals) ==
            IF vals.err # NoErr
            THEN [contractID |-> none, state |-> none, err |-> vals.err, panic |-> FALSE]
            ELSE Found(vals.cv)
        Looked(rec) ==
            IF rec.err # NoErr
            THEN [contractID |-> none, state |-> none, err |-> rec.err, panic |-> FALSE]
            ELSE Decoded(Values(rec.record))
    IN  IF i.Spawn # Nil
        THEN [contractID |-> i.Spawn.ContractID, state |-> none,
              err |-> NoErr, panic |-> FALSE]
        ELSE Looked(Record(Get(coll, Slice(i.ObjectID))))

(***************************************************************************)
(* network.Marshal and network.Unmarshal of the registered messages.  A    *)
(* message is the byte naming its registered type followed by its body;    *)
(* a body is built of length-prefixed chunks, nested for nested messages.  *)
(***************************************************************************)
\* type ClientTransaction struct
ClientTransaction(instrs) == [Instructions |-> instrs]

\* network.RegisterMessages(Instruction{}, ClientTransaction{}, StateChange{})
InstructionTypeID == 1
ClientTransactionTypeID == 2
StateChangeTypeID == 3
RegisteredTypeIDs == {InstructionTypeID, ClientTransactionTypeID, StateChangeTypeID}

EncChunk(b) == <<Len(b)>> \o b

EncChunks(chunks) == Concat([k \in 1..Len(chunks) |-> EncChunk(chunks[k])])

DecFail == [ok |-> FALSE, val |-> <<>>]
DecOk(v) == [ok |-> TRUE, val |-> v]

\* the chunks of a buffer, or a failure when a length runs past the end
RECURSIVE DecChunks(_)
DecChunks(buf) ==
    LET Prepend(chunk, rest) ==
            IF rest.ok THEN DecOk(<<chunk>> \o rest.val) ELSE DecFail
    IN  IF buf = <<>> THEN DecOk(<<>>)
        ELSE IF Len(buf) < 1 + buf[1] THEN DecFail
        ELSE Prepend(SubSeq(buf, 2, 1 + buf[1]),
                     DecChunks(SubSeq(buf, 2 + buf[1], Len(buf))))

\* a list of pairs as a flat list of chunks
Flatten(pairs) ==
    [k \in 1..(2 * Len(pairs)) |-> pairs[(k + 1) \div 2][2 - (k % 2)]]

EncodeArguments(args) ==
    EncChunks(Flatten([k \in 1..Len(args) |-> <<args[k].Name, args[k].Value>>]))

DecodeArguments(buf) ==
    LET Paired(c) ==
            IF ~c.ok \/ Len(c.val) % 2 # 0 THEN DecFail
            ELSE DecOk([k \in 1..(Len(c.val) \div 2) |->
                           Argument(c.val[2 * k - 1], c.val[2 * k])])
    IN  Paired(DecChunks(buf))

EncodeSignatures(sigs) ==
    EncChunks(Flatten([k \in 1..Len(sigs) |-> <<sigs[k].Signer, sigs[k].Signature>>]))

DecodeSignatures(buf) ==
    LET Paired(c) ==
            IF ~c.ok \/ Len(c.val) % 2 # 0 THEN DecFail
            ELSE DecOk([k \in 1..(Len(c.val) \div 2) |->
                           Signature(c.val[2 * k - 1], c.val[2 * k])])
    IN  Paired(DecChunks(buf))

\* an optional nested message taking a string and arguments (Spawn, Invoke):
\* nothing when nil, else the byte 1 and the two chunks
EncodeCall(name, args) == <<1>> \o EncChunks(<<name, EncodeArguments(args)>>)

EncodeSpawn(p) == IF p = Nil THEN <<>> ELSE EncodeCall(p.ContractID, p.Args)

EncodeInvoke(p) == IF p = Nil THEN <<>> ELSE EncodeCall(p.Command, p.Args)

EncodeDelete(p) == IF p = Nil THEN <<>> ELSE <<1>>

\* the string and the arguments of an optional nested message
DecodeCall(buf) ==
    LET WithArgs(name, a) ==
            IF a.ok THEN DecOk([name |-> name, args |-> a.val]) ELSE DecFail
        Two(c) ==
            IF ~c.ok \/ Len(c.val) # 2 THEN DecFail
            ELSE WithArgs(c.val[1], DecodeArguments(c.val[2]))
    IN  IF buf[1] # 1 THEN DecFail ELSE Two(DecChunks(Tail(buf)))

DecodeSpawn(buf) ==
    LET Made(c) == IF c.ok THEN DecOk(Spawn(c.val.name, c.val.args)) ELSE DecFail
    IN  IF buf = <<>> THEN DecOk(Nil) ELSE Made(DecodeCall(buf))

DecodeInvoke(buf) ==
    LET Made(c) == IF c.ok THEN DecOk(Invoke(c.val.name, c.val.args)) ELSE DecFail
    IN  IF buf = <<>> THEN DecOk(Nil) ELSE Made(DecodeCall(buf))

DecodeDelete(buf) ==
    IF buf = <<>> THEN DecOk(Nil)
    ELSE IF buf = <<1>> THEN DecOk(Delete)
    ELSE DecFail

\* an int on the wire: its little-endian bytes without the high zero bytes
RECURSIVE EncodeInt(_)
EncodeInt(x) ==
    IF x = <<>> \/ x[Len(x)] # 0 THEN x
    ELSE EncodeInt(SubSeq(x, 1, Len(x) - 1))

DecodeInt(buf) ==
    IF Len(buf) > 8 \/ (buf # <<>> /\ buf[Len(buf)] = 0) THEN DecFail
    ELSE DecOk([k \in 1..8 |-> IF k <= Len(buf) THEN buf[k] ELSE 0])

EncodeInstruction(i) ==
    EncChunks(<<i.ObjectID.DarcID, i.ObjectID.InstanceID, i.Nonce,
                EncodeInt(i.Index), EncodeInt(i.Length),
                EncodeSpawn(i.Spawn), EncodeInvoke(i.Invoke), EncodeDelete(i.Delete),
                EncodeSignatures(i.Signatures)>>)

DecodeInstruction(buf) ==
    LET Fields(f, index, length, spawn, invoke, delete, sigs) ==
            IF Len(f[2]) # NonceLen \/ Len(f[3]) # NonceLen
               \/ ~index.ok \/ ~length.ok
               \/ ~spawn.ok \/ ~invoke.ok \/ ~delete.ok \/ ~sigs.ok
            THEN DecFail
            ELSE DecOk(Instruction(ObjectID(f[1], f[2]), f[3], index.val, length.val,
                                   spawn.val, invoke.val, delete.val, sigs.val))
        Nine(c) ==
            IF ~c.ok \/ Len(c.val) # 9 THEN DecFail
            ELSE Fields(c.val, DecodeInt(c.val[4]), DecodeInt(c.val[5]),
                        DecodeSpawn(c.val[6]), DecodeInvoke(c.val[7]),
                        DecodeDelete(c.val[8]), DecodeSignatures(c.val[9]))
    IN  Nine(DecChunks(buf))

EncodeClientTransaction(ct) ==
    EncChunks([k \in 1..Len(ct.Instructions) |-> EncodeInstruction(ct.Instructions[k])])

DecodeClientTransaction(buf) ==
    LET All(is) ==
            IF \E k \in 1..Len(is) : ~is[k].ok THEN DecFail
            ELSE DecOk(ClientTransaction([k \in 1..Len(is) |-> is[k].val]))
        Each(c) ==
            IF ~c.ok THEN DecFail
            ELSE All(<<>> \o [k \in 1..Len(c.val) |-> DecodeInstruction(c.val[k])])
    IN  Each(DecChunks(buf))

\* network.Marshal(&ts[i]); the marshaller's own failure is an input
Marshal(ct, fails) ==
    IF fails THEN [buf |-> <<>>, err |-> "marshal"]
    ELSE [buf |-> <<ClientTransactionTypeID>> \o EncodeClientTransaction(ct),
          err |-> NoErr]

\* network.Unmarshal(buf, suite): the type the buffer names and the decoded message
Unmarshal(buf) ==
    LET Message(type, d) ==
            IF d.ok THEN [type |-> type, msg |-> d.val, err |-> NoErr]
            ELSE [type |-> 0, msg |-> Nil, err |-> "unmarshal"]
    IN  IF buf = <<>> \/ buf[1] \notin RegisteredTypeIDs
        THEN [type |-> 0, msg |-> Nil, err |-> "unmarshal"]
        ELSE IF buf[1] = ClientTransactionTypeID
        THEN Message(buf[1], DecodeClientTransaction(Tail(buf)))
        ELSE IF buf[1] = InstructionTypeID
        THEN Message(buf[1], DecodeInstruction(Tail(buf)))
        \* a StateChange: its fields are not looked at by the caller
        ELSE [type |-> buf[1], msg |-> [raw |-> Tail(buf)], err |-> NoErr]

(***************************************************************************)
(* xorTransactions, sortWithSalt, sortTransactions                         *)
(***************************************************************************)
\* xorTransactions replaced by the alternative its caller's comment rejects:
\* the salt as the hash of the concatenated transactions
saltOfConcatenation(bs) == Sha256(Concat(bs))

RECURSIVE xorTransactions(_)
xorTransactions(bs) ==
    LET Xor(result, hs) == [k \in 1..DigestLen |-> XorByte(result[k], hs[k])]
    IN  IF bs = <<>> THEN [k \in 1..DigestLen |-> 0]
        ELSE Xor(xorTransactions(SubSeq(bs, 1, Len(bs) - 1)), Sha256(bs[Len(bs)]))

\* the key sortWithSalt orders an encoded transaction by
SaltedHash(t, salt) == Sha256(salt \o t)

\* the less function of sortWithSalt, on two encoded transactions with their
\* keys (less hashes both on every call; here each is hashed once, which
\* gives the same answers)
SaltedLess(a, b) == BytesLess(a.key, b.key)

\* one pass of sort.Slice's insertion sort (the sort it runs on fewer than 12
\* elements): x moves left while it is less than its left neighbour
RECURSIVE Insert(_, _)
Insert(sorted, x) ==
    IF sorted = <<>> THEN <<x>>
    ELSE IF SaltedLess(x, sorted[Len(sorted)])
    THEN Insert(SubSeq(sorted, 1, Len(sorted) - 1), x) \o <<sorted[Len(sorted)]>>
    ELSE sorted \o <<x>>

RECURSIVE InsertionSort(_)
InsertionSort(keyed) ==
    IF keyed = <<>> THEN <<>>
    ELSE Insert(InsertionSort(SubSeq(keyed, 1, Len(keyed) - 1)), keyed[Len(keyed)])

\* sortWithSalt comparing the hashes of the buffers without the salt
sortWithoutSalt(bs, salt) ==
    LET Bufs(keyed) == [k \in 1..Len(keyed) |-> keyed[k].buf]
    IN  Bufs(InsertionSort(<<>> \o [k \in 1..Len(bs) |->
                                      [key |-> Sha256(bs[k]), buf |-> bs[k]]]))

sortWithSalt(bs, salt) ==
    LET Bufs(keyed) == [k \in 1..Len(keyed) |-> keyed[k].buf]
    IN  Bufs(InsertionSort(<<>> \o [k \in 1..Len(bs) |->
                                [key |-> SaltedHash(bs[k], salt), buf |-> bs[k]]]))

\* The failures sortTransactions handles come from the marshaller, so they are
\* an input: fault names the call that fails and how.  "marshal": Marshal of
\* ts[at] returns an error.  "truncate": the buffer Unmarshal is given at
\* position at lacks its last byte.  "retag": that buffer names another
\* registered type.
NoFault == [kind |-> "none", at |-> 0]

Faults(n) ==
    {NoFault} \cup [kind : {"marshal", "truncate", "retag"}, at : 1..n]

AsRead(buf, k, fault) ==
    IF fault.at # k THEN buf
    ELSE IF fault.kind = "truncate" THEN SubSeq(buf, 1, Len(buf) - 1)
    ELSE IF fault.kind = "retag" THEN <<StateChangeTypeID>> \o Tail(buf)
    ELSE buf

\* the error of the first position of the decoding loop that fails, or NoErr
RECURSIVE FirstError(_, _)
FirstError(us, k) ==
    IF k > Len(us) THEN NoErr
    ELSE IF us[k].err # NoErr THEN us[k].err
    ELSE IF us[k].type # ClientTransactionTypeID THEN "Data of wrong type"
    ELSE FirstError(us, k + 1)

\* sortTransactions whose last loop copies through one shared pointer: every
\* position of ts receives the transaction decoded last
sortTransactionsAliased(t, fault) ==
    LET n == Len(t)
        Copy(us, err) ==
            IF err # NoErr THEN [ts |-> t, err |-> err]
            ELSE [ts |-> [k \in 1..n |-> us[n].msg], err |-> NoErr]
        Decoded(us) == Copy(us, FirstError(us, 1))
        Sorted(sorted) ==
            Decoded(<<>> \o [k \in 1..n |-> Unmarshal(AsRead(sorted[k], k, fault))])
        Salted(bs) == Sorted(sortWithSalt(bs, xorTransactions(bs)))
        Marshalled(ms) ==
            IF \E k \in 1..n : ms[k].err # NoErr
            THEN [ts |-> t, err |-> "marshal"]
            ELSE Salted(<<>> \o [k \in 1..n |-> ms[k].buf])
    IN  Marshalled(<<>> \o [k \in 1..n |->
                      Marshal(t[k], fault.kind = "marshal" /\ fault.at = k)])

\* sortTransactions decoding straight into ts: the positions before a failing
\* one are already overwritten when it returns the error
sortTransactionsInPlace(t, fault) ==
    LET n == Len(t)
        FirstBad(us) ==
            IF \A k \in 1..n : us[k].err = NoErr /\ us[k].type = ClientTransactionTypeID
            THEN n + 1
            ELSE CHOOSE k \in 1..n :
                    /\ us[k].err # NoErr \/ us[k].type # ClientTransactionTypeID
                    /\ \A l \in 1..(k - 1) :
                          us[l].err = NoErr /\ us[l].type = ClientTransactionTypeID
        Copy(us, err, bad) ==
            [ts |-> [k \in 1..n |-> IF k < bad THEN us[k].msg ELSE t[k]], err |-> err]
        Decoded(us) == Copy(us, FirstError(us, 1), FirstBad(us))
        Sorted(sorted) ==
            Decoded(<<>> \o [k \in 1..n |-> Unmarshal(AsRead(sorted[k], k, fault))])
        Salted(bs) == Sorted(sortWithSalt(bs, xorTransactions(bs)))
        Marshalled(ms) ==
            IF \E k \in 1..n : ms[k].err # NoErr
            THEN [ts |-> t, err |-> "marshal"]
            ELSE Salted(<<>> \o [k \in 1..n |-> ms[k].buf])
    IN  Marshalled(<<>> \o [k \in 1..n |->
                      Marshal(t[k], fault.kind = "marshal" /\ fault.at = k)])

sortTransactions(t, fault) ==
    LET n == Len(t)
        \* the last loop, reached when every buffer decoded to a ClientTransaction
        Copy(us, err) ==
            IF err # NoErr THEN [ts |-> t, err |-> err]
            ELSE [ts |-> [k \in 1..n |-> us[k].msg], err |-> NoErr]
        Decoded(us) == Copy(us, FirstError(us, 1))
        Sorted(sorted) ==
            Decoded(<<>> \o [k \in 1..n |-> Unmarshal(AsRead(sorted[k], k, fault))])
        Salted(bs) == Sorted(sortWithSalt(bs, xorTransactions(bs)))
        Marshalled(ms) ==
            IF \E k \in 1..n : ms[k].err # NoErr
            THEN [ts |-> t, err |-> "marshal"]
            ELSE Salted(<<>> \o [k \in 1..n |-> ms[k].buf])
    IN  Marshalled(<<>> \o [k \in 1..n |->
                      Marshal(t[k], fault.kind = "marshal" /\ fault.at = k)])

(***************************************************************************)
(* The values the calls are made on.                                       *)
(***************************************************************************)
DarcIDs == {<<10, 11>>, <<12>>}

Nonces == {Nonce(1), Nonce(2)}

\* 0, 1 and 2^32
Indexes == {GoInt(0, 0), GoInt(1, 0), GoInt(0, 1)}

\* 2 and 2^32 + 2
Lengths == {GoInt(2, 0), GoInt(2, 1)}

Args1 == <<Argument(<<110>>, <<5, 6>>)>>
Args2 == <<Argument(<<110>>, <<5, 7>>)>>
DarcArgs == <<Argument(<<110>>, <<5>>), Argument(StrDarc, DarcBuf(<<40, 41>>))>>

Spawns == {Nil, Spawn(StrCoin, Args1)}

Invokes ==
    {Nil, Invoke(StrUEvolve, DarcArgs), Invoke(StrUEvolve, Args1),
     Invoke(StrEvolve, DarcArgs), Invoke(StrTransfer, Args2)}

Deletes == {Nil, Delete}

IdA == <<65>>
IdB == <<66>>
IdC == <<67>>

SignatureLists ==
    {<<>>, <<Signature(IdA, <<1, 2>>)>>,
     <<Signature(IdA, <<1, 2>>), Signature(IdB, <<3>>)>>}

Instructions ==
    {Instruction(ObjectID(d, Nonce(0)), n, x, l, s, v, e, g) :
        d \in DarcIDs, n \in Nonces, x \in Indexes, l \in Lengths,
        s \in Spawns, v \in Invokes, e \in Deletes, g \in SignatureLists}

Purposes == {StrSpawnCoin, StrSpawnDarc, StrCoin}

Entries ==
    {Broken, Undecodable, Stored(<<>>), Stored(<<Bytes(<<9>>)>>),
     Stored(<<Bytes(<<9>>), Bytes(StrCoin)>>),
     Stored(<<Bytes(<<9>>), NotBytes(StrCoin)>>),
     Stored(<<NotBytes(<<9>>), Bytes(StrCoin)>>),
     Stored(<<Bytes(<<9>>), Bytes(StrCoin), Bytes(<<1>>)>>)}

OtherKey == <<0>>

Collections(i) ==
    {Collection(k, e) : k \in {Slice(i.ObjectID), OtherKey}, e \in Entries}

SignerA == Signer(IdA, 21, FALSE)
SignerB == Signer(IdB, 22, FALSE)
SignerBad == Signer(IdC, 23, TRUE)
Signers == {SignerA, SignerB, SignerBad}

SignerLists == UNION {[1..n -> Signers] : n \in 0..MaxSigners}

\* the instructions a client hands to SignBy
UnsignedInstructions ==
    {Instruction(ObjectID(d, Nonce(0)), Nonce(1), GoInt(0, 0), GoInt(2, 0), s, v, e, <<>>) :
        d \in DarcIDs, s \in Spawns, v \in Invokes, e \in Deletes}

\* the client transactions a leader sorts
Instr1 ==
    Instruction(ObjectID(<<12>>, Nonce(0)), Nonce(1), GoInt(0, 0), GoInt(1, 0),
                Spawn(StrCoin, <<>>), Nil, Nil, <<Signature(IdA, <<1, 2>>)>>)
Instr2 ==
    Instruction(ObjectID(<<12>>, Nonce(0)), Nonce(2), GoInt(0, 0), GoInt(2, 0),
                Nil, Invoke(<<116>>, <<Argument(<<110>>, <<5>>)>>), Nil, <<>>)
Instr3 ==
    Instruction(ObjectID(<<12>>, Nonce(3)), Nonce(2), GoInt(1, 0), GoInt(2, 0),
                Nil, Nil, Delete, <<>>)
Instr4 ==
    Instruction(ObjectID(<<12>>, Nonce(3)), Nonce(4), GoInt(0, 0), GoInt(1, 1),
                Nil, Nil, Delete, <<>>)

Transactions ==
    {ClientTransaction(<<Instr1>>), ClientTransaction(<<Instr2, Instr3>>),
     ClientTransaction(<<Instr4>>)}

TransactionLists == UNION {[1..n -> Transactions] : n \in 0..MaxTxs}

(***************************************************************************)
(* The calls.                                                              *)
(***************************************************************************)
Idle == [op |-> "none", arg |-> Nil, out |-> Nil]

Called(op, arg, out) == [op |-> op, arg |-> arg, out |-> out]

CallHash ==
    /\ ret' = Called("Hash", Nil, [input |-> HashInput(instr), digest |-> Hash(instr)])
    /\ UNCHANGED <<instr, ts, tsBefore, sortRet>>

CallDeriveID ==
    \E what \in Purposes :
        /\ ret' = Called("DeriveID", what,
                         [input |-> DeriveIDInput(instr, what), id |-> DeriveID(instr, what)])
        /\ UNCHANGED <<instr, ts, tsBefore, sortRet>>

CallGetContractState ==
    \E coll \in Collections(instr) :
        /\ ret' = Called("GetContractState", coll, GetContractState(instr, coll))
        /\ UNCHANGED <<instr, ts, tsBefore, sortRet>>

CallAction ==
    /\ ret' = Called("Action", Nil, Action(instr))
    /\ UNCHANGED <<instr, ts, tsBefore, sortRet>>

CallGetType ==
    /\ ret' = Called("GetType", Nil, GetType(instr))
    /\ UNCHANGED <<instr, ts, tsBefore, sortRet>>

CallToDarcRequest ==
    /\ ret' = Called("ToDarcRequest", Nil, ToDarcRequest(instr))
    /\ UNCHANGED <<instr, ts, tsBefore, sortRet>>

CallSignBy ==
    \E signers \in SignerLists :
        \E r \in {SignBy(instr, signers)} :
            /\ instr' = r.instr
            \* before: how many signatures the instruction held when called
            /\ ret' = Called("SignBy", signers,
                             [err |-> r.err, panic |-> r.panic, digests |-> r.digests,
                              before |-> Len(instr.Signatures)])
            /\ UNCHANGED <<ts, tsBefore, sortRet>>

CallSortTransactions ==
    \E fault \in Faults(Len(ts)) :
        \E r \in {sortTransactions(ts, fault)} :
            /\ ts' = r.ts
            /\ tsBefore' = ts
            /\ sortRet' = Called("sortTransactions", Nil, r.err)
            /\ UNCHANGED <<instr, ret>>

(***************************************************************************)
(* The specifications: the read-only methods of an Instruction, the        *)
(* signing of an Instruction, and the sorting of client transactions.      *)
(***************************************************************************)
Init ==
    /\ instr \in Instructions
    /\ ret = Idle
    /\ ts = <<>>
    /\ tsBefore = <<>>
    /\ sortRet = Idle

Next ==
    \/ CallHash
    \/ CallDeriveID
    \/ CallGetContractState
    \/ CallAction
    \/ CallGetType
    \/ CallToDarcRequest

Spec == Init /\ [][Next]_vars

InitSign ==
    /\ instr \in UnsignedInstructions
    /\ ret = Idle
    /\ ts = <<>>
    /\ tsBefore = <<>>
    /\ sortRet = Idle

NextSign == CallSignBy

SpecSign == InitSign /\ [][NextSign]_vars

InitOrder ==
    /\ instr = Instr1
    /\ ret = Idle
    /\ ts \in TransactionLists
    /\ tsBefore = ts
    /\ sortRet = Idle

NextOrder == CallSortTransactions

SpecOrder == InitOrder /\ [][NextOrder]_vars

(***************************************************************************)
(* The properties of sortTransactions, checked under SpecOrder.            *)
(***************************************************************************)
Returned(err) == sortRet.op = "sortTransactions" /\ sortRet.out = err

Failed == sortRet.op = "sortTransactions" /\ sortRet.out # NoErr

\* how often x occurs in seq
Count(seq, x) == Cardinality({k \in 1..Len(seq) : seq[k] = x})

\* the orders a slice of n elements can be given in
Reorderings(n) ==
    {p \in [1..n -> 1..n] : \A a, b \in 1..n : p[a] = p[b] => a = b}

\* C1: when sortTransactions returns no error, the slice holds the same
\* client transactions as before the call, each as often as before and
\* unaltered, and it has the same length.
C1_OrderIsPermutation ==
    Returned(NoErr) =>
        /\ Len(ts) = Len(tsBefore)
        /\ \A k \in 1..Len(ts) : Count(ts, ts[k]) = Count(tsBefore, ts[k])
        /\ \A k \in 1..Len(tsBefore) :
              Count(ts, tsBefore[k]) = Count(tsBefore, tsBefore[k])

\* a successful call that moved three transactions, one of them holding
\* a Length above 2^32
C1_Witness ==
    /\ Returned(NoErr)
    /\ Len(ts) = 3
    /\ ts # tsBefore
    /\ \E k \in 1..3 : ts[k] = ClientTransaction(<<Instr4>>)

\* C2: the order sortTransactions leaves depends on which transactions the
\* slice holds and not on the order they were given in: every reordering of
\* the input sorts to the slice the call left, and so does that slice itself.
C2_OrderIgnoresInputOrder ==
    Returned(NoErr) =>
        /\ \A p \in Reorderings(Len(tsBefore)) :
              sortTransactions([k \in 1..Len(tsBefore) |-> tsBefore[p[k]]], NoFault).ts = ts
        /\ sortTransactions(ts, NoFault).ts = ts

\* a successful call on three different transactions given in another order
\* than the one it left
C2_Witness ==
    /\ Returned(NoErr)
    /\ Len(ts) = 3
    /\ ts # tsBefore
    /\ \A a, b \in 1..3 : ts[a] = ts[b] => a = b

\* C3: when sortTransactions returns an error, whichever call of the
\* marshaller failed, the slice is at every position what it was before.
C3_OrderAllOrNothing ==
    Failed =>
        /\ Len(ts) = Len(tsBefore)
        /\ \A k \in 1..Len(ts) : ts[k] = tsBefore[k]

\* an error of each kind on a slice of three that a successful call would
\* have reordered
C3_WitnessOn(err) ==
    /\ Returned(err)
    /\ Len(tsBefore) = 3
    /\ sortTransactions(tsBefore, NoFault).ts # tsBefore

C3_Witness == C3_WitnessOn("Data of wrong type")

C3_WitnessMarshal == C3_WitnessOn("marshal")

C3_WitnessUnmarshal == C3_WitnessOn("unmarshal")

\* the bytewise XOR of byte strings of DigestLen bytes, all 0 for none
RECURSIVE XorOfDigests(_)
XorOfDigests(hs) ==
    IF hs = <<>> THEN [k \in 1..DigestLen |-> 0]
    ELSE LET rest == XorOfDigests(Tail(hs))
         IN  [k \in 1..DigestLen |-> XorByte(Head(hs)[k], rest[k])]

\* the encodings of the client transactions of a slice
Encodings(t) == [k \in 1..Len(t) |-> Marshal(t[k], FALSE).buf]

\* the salt of a slice: the XOR of the digests of its encodings
SaltOf(t) == XorOfDigests([k \in 1..Len(t) |-> Sha256(Encodings(t)[k])])

\* the key of a client transaction under a salt
KeyOf(salt, ct) == Sha256(salt \o Marshal(ct, FALSE).buf)

\* C11: when sortTransactions returns no error, the slice is in ascending
\* order of the digest of salt || encoding, the salt being the XOR of the
\* digests of the encodings of the transactions given (all zero bytes for
\* none): no transaction has a key below the key of the one before it.
C11_OrderIsAscendingInSaltedKey ==
    Returned(NoErr) =>
        /\ xorTransactions(Encodings(tsBefore)) = SaltOf(tsBefore)
        /\ Len(tsBefore) = 0 => xorTransactions(<<>>) = [k \in 1..DigestLen |-> 0]
        /\ \A k \in 1..(Len(ts) - 1) :
              ~BytesLess(KeyOf(SaltOf(tsBefore), ts[k + 1]), KeyOf(SaltOf(tsBefore), ts[k]))

\* a successful call that moved three different transactions, leaving them
\* with keys that grow from each to the next
C11_Witness ==
    /\ Returned(NoErr)
    /\ Len(ts) = 3
    /\ ts # tsBefore
    /\ SaltOf(tsBefore) # [k \in 1..DigestLen |-> 0]
    /\ \A k \in 1..2 :
          BytesLess(KeyOf(SaltOf(tsBefore), ts[k]), KeyOf(SaltOf(tsBefore), ts[k + 1]))

(***************************************************************************)
(* The properties of the read-only methods, checked under Spec.            *)
(***************************************************************************)
\* how many of Spawn, Invoke and Delete are set
Payloads(i) ==
    Cardinality({f \in {"Spawn", "Invoke", "Delete"} : i[f] # Nil})

\* C4: an instruction with no payload or with more than one is invalid for
\* both classifiers, GetType giving the invalid type and Action the label
\* "invalid"; an instruction with one payload gets the type and the label of
\* that payload.
C4_InvalidForBothClassifiers ==
    /\ ret.op = "GetType" =>
          ret.out = IF Payloads(instr) # 1 THEN InvalidInstrType
                    ELSE IF instr.Spawn # Nil THEN SpawnType
                    ELSE IF instr.Invoke # Nil THEN InvokeType
                    ELSE DeleteType
    /\ ret.op = "Action" =>
          ret.out = IF Payloads(instr) # 1 THEN StrInvalid
                    ELSE IF instr.Spawn # Nil THEN StrSpawn \o instr.Spawn.ContractID
                    ELSE IF instr.Invoke # Nil THEN StrInvoke \o instr.Invoke.Command
                    ELSE StrDelete

\* an Invoke and nothing else, its command the reserved "_evolve"
RequestsEvolution(i) ==
    /\ Payloads(i) = 1
    /\ i.Invoke # Nil
    /\ i.Invoke.Command = StrUEvolve

\* C5: for an Invoke of the darc evolution, ToDarcRequest takes the message
\* of the request from the darc in the argument "darc", its ID and not the
\* hash of the instruction, and returns an error and no request when that
\* argument is missing or is no darc.
C5_EvolutionSignsTheDarcID ==
    (ret.op = "ToDarcRequest" /\ RequestsEvolution(instr)) =>
        LET d == NewFromProtobuf(Search(instr.Invoke.Args, StrDarc))
        IN  /\ ~ret.out.panic
            /\ IF d.err # NoErr
               THEN ret.out.err # NoErr /\ ret.out.req = Nil
               ELSE /\ ret.out.err = NoErr
                    /\ ret.out.req.Msg = GetID(d.darc)
                    /\ ret.out.req.Msg # Hash(instr)

\* C6: for an instruction whose action is not the evolution action,
\* ToDarcRequest returns no error and a request holding the DarcID of the
\* instruction's ObjectID, the label Action gives, the hash of the
\* instruction, and the signers and the signatures of the instruction in
\* their order; the label of a Delete is "Delete".
C6_RequestOfTheInstruction ==
    (ret.op = "ToDarcRequest" /\ Action(instr) # StrUEvolve) =>
        /\ ret.out.err = NoErr
        /\ ~ret.out.panic
        /\ ret.out.req.BaseID = instr.ObjectID.DarcID
        /\ ret.out.req.Action = Action(instr)
        /\ ret.out.req.Msg = Sha256(HashInput(instr))
        /\ Len(ret.out.req.Identities) = Len(instr.Signatures)
        /\ Len(ret.out.req.Signatures) = Len(instr.Signatures)
        /\ \A k \in 1..Len(instr.Signatures) :
              /\ ret.out.req.Identities[k] = instr.Signatures[k].Signer
              /\ ret.out.req.Signatures[k] = instr.Signatures[k].Signature
        /\ (Payloads(instr) = 1 /\ instr.Delete # Nil) =>
              ret.out.req.Action = StrDelete

\* the request of a Delete that two different signers have signed
C6_Witness ==
    /\ ret.op = "ToDarcRequest"
    /\ Payloads(instr) = 1
    /\ instr.Delete # Nil
    /\ Len(instr.Signatures) = 2
    /\ instr.Signatures[1] # instr.Signatures[2]
    /\ ret.out.req.Action = StrDelete
    /\ ret.out.req.Msg = Hash(instr)

\* a stored record that does not hold two []byte values first
Malformed(entry) ==
    \/ entry.kind \in {"broken", "undecodable"}
    \/ /\ entry.kind = "stored"
       /\ \/ Len(entry.values) < 2
          \/ entry.values[1].type # "bytes"
          \/ entry.values[2].type # "bytes"

\* C8: GetContractState never panics.  For a Spawn it returns the contract
\* ID of the Spawn, no state and no error; otherwise an error when the key
\* is absent or the record under it is malformed, and else the second value
\* of the record as contract ID and the first as state.
C8_GetContractStateNeverPanics ==
    ret.op = "GetContractState" =>
        LET entry == Get(ret.arg, Slice(instr.ObjectID))
        IN  /\ ~ret.out.panic
            /\ IF instr.Spawn # Nil
               THEN /\ ret.out.contractID = instr.Spawn.ContractID
                    /\ ret.out.state = <<>>
                    /\ ret.out.err = NoErr
               ELSE IF entry.kind = "absent" THEN ret.out.err = "not-found"
               ELSE IF Malformed(entry) THEN ret.out.err # NoErr
               ELSE /\ ret.out.err = NoErr
                    /\ ret.out.contractID = entry.values[2].v
                    /\ ret.out.state = entry.values[1].v

\* the argument lists that differ from args in one byte of one value
OtherBytes == {5, 6, 7}

ArgVariants(args) ==
    UNION {UNION {{[args EXCEPT ![k].Value[b] = v] : v \in OtherBytes \ {args[k].Value[b]}} :
                    b \in 1..Len(args[k].Value)} :
             k \in 1..Len(args)}

\* the instructions that differ from i in Index, in Length, in Nonce, or in
\* one byte of one argument value, and in nothing else
HashVariants(i) ==
    {[i EXCEPT !.Index = x] : x \in Indexes \ {i.Index}}
        \cup {[i EXCEPT !.Length = l] : l \in Lengths \ {i.Length}}
        \cup {[i EXCEPT !.Nonce = n] : n \in Nonces \ {i.Nonce}}
        \cup (IF i.Spawn = Nil THEN {}
              ELSE {[i EXCEPT !.Spawn.Args = a] : a \in ArgVariants(i.Spawn.Args)})
        \cup (IF i.Invoke = Nil THEN {}
              ELSE {[i EXCEPT !.Invoke.Args = a] : a \in ArgVariants(i.Invoke.Args)})

\* C9: Hash is a function of the instruction, and an instruction that
\* differs from it in Index, Length, Nonce or one byte of an argument value
\* alone is hashed from other bytes, whatever the values of Index and Length.
C9_HashTellsFieldsApart ==
    ret.op = "Hash" =>
        /\ ret.out.input = HashInput(instr)
        /\ ret.out.digest = Hash(instr)
        /\ \A j \in HashVariants(instr) : HashInput(j) # ret.out.input

\* the instructions that differ from i in who signed, and in nothing else
SignerVariants(i) ==
    {[i EXCEPT !.Signatures =
          [k \in 1..Len(i.Signatures) |-> Signature(ids[k], i.Signatures[k].Signature)]] :
        ids \in [1..Len(i.Signatures) -> {IdA, IdB, IdC}]}

\* C10: DeriveID hashes the purpose, the hash of the instruction and the
\* signature bytes in their order, and returns that digest as InstanceID
\* under the DarcID of the instruction's own ObjectID; another purpose is
\* hashed from other bytes, and other signers derive the same ObjectID.
C10_DeriveID ==
    ret.op = "DeriveID" =>
        /\ ret.out.id.DarcID = instr.ObjectID.DarcID
        /\ ret.out.input =
              ret.arg \o Hash(instr)
                  \o Concat([k \in 1..Len(instr.Signatures) |-> instr.Signatures[k].Signature])
        /\ ret.out.id.InstanceID = CopyToNonce(Sha256(ret.out.input))
        /\ \A what \in Purposes \ {ret.arg} : DeriveIDInput(instr, what) # ret.out.input
        /\ \A j \in SignerVariants(instr) : DeriveID(j, ret.arg) = ret.out.id

\* an ID derived for "spawn:darc" from an instruction that two signers signed
C10_Witness ==
    /\ ret.op = "DeriveID"
    /\ ret.arg = StrSpawnDarc
    /\ Len(instr.Signatures) = 2
    /\ instr.Signatures[1].Signer # instr.Signatures[2].Signer
    /\ ret.out.id.InstanceID # instr.ObjectID.InstanceID

(***************************************************************************)
(* The property of SignBy, checked under SpecSign.                         *)
(***************************************************************************)
\* the instruction as SignBy hands it to ToDarcRequest: every signer's
\* identity in place and no signature bytes
WithPlaceholders(i, signers) ==
    [i EXCEPT !.Signatures =
        [k \in 1..Len(signers) |-> Signature(Identity(signers[k]), <<>>)]]

\* C7: when SignBy returns no error, the instruction holds one signature for
\* each signer, in their order, each with the signer's identity and what
\* that signer's Sign gave for the digest of the request of the instruction
\* with the placeholders; every call of Sign was given that digest.
C7_SignByEverySigner ==
    (ret.op = "SignBy" /\ ret.out.err = NoErr /\ ~ret.out.panic) =>
        LET signers == ret.arg
            digest == RequestHash(ToDarcRequest(WithPlaceholders(instr, signers)).req)
        IN  /\ Len(instr.Signatures) = Len(signers)
            /\ \A k \in 1..Len(signers) :
                  /\ instr.Signatures[k].Signer = Identity(signers[k])
                  /\ instr.Signatures[k].Signature = Sign(signers[k], digest).sig
            /\ Len(ret.out.digests) = Len(signers)
            /\ \A k \in 1..Len(signers) : ret.out.digests[k] = digest

\* two different signers have signed an instruction
C7_Witness ==
    /\ ret.op = "SignBy"
    /\ ret.out.err = NoErr
    /\ Len(ret.arg) = 2
    /\ ret.arg[1] # ret.arg[2]
    /\ Len(instr.Signatures) = 2
    /\ instr.Signatures[1].Signature # <<>>
    /\ instr.Signatures[1].Signature # instr.Signatures[2].Signature

\* C12: SignBy replaces the signatures of the instruction and never adds to
\* them.  After a call, whatever the instruction held before, it holds one
\* entry for each signer of that call, each of them made by that call: the
\* signer's signature of the digest of that call, or, after an error, a
\* placeholder with the signer's identity, or an empty slot from the signer
\* on whose Sign failed.
C12_SignByReplaces ==
    ret.op = "SignBy" =>
        LET signers == ret.arg
            digest == RequestHash(ToDarcRequest(WithPlaceholders(instr, signers)).req)
            \* the calls of Sign that were made, the failing one included
            calls == Len(ret.out.digests)
            SignedBy(k) == Signature(Identity(signers[k]), Sign(signers[k], digest).sig)
        IN  /\ Len(instr.Signatures) = Len(signers)
            /\ \A k \in 1..Len(instr.Signatures) :
                  IF ret.out.err = NoErr
                  THEN instr.Signatures[k] = SignedBy(k)
                  ELSE \/ instr.Signatures[k] = Signature(Identity(signers[k]), <<>>)
                       \/ k < calls /\ instr.Signatures[k] = SignedBy(k)
                       \/ k >= calls /\ instr.Signatures[k] = Signature(ZeroIdentity, <<>>)

\* an instruction that held two signatures holds one after a call with one
\* signer
C12_Witness ==
    /\ ret.op = "SignBy"
    /\ ret.out.before = 2
    /\ Len(ret.arg) = 1
    /\ ret.out.err = NoErr
    /\ Len(instr.Signatures) = 1
    /\ instr.Signatures[1].Signature # <<>>

\* an instruction that held two signatures holds one signature and an empty
\* slot after a call whose second signer failed
C12_WitnessFailed ==
    /\ ret.op = "SignBy"
    /\ ret.out.before = 2
    /\ Len(ret.arg) = 2
    /\ ret.out.err = "sign"
    /\ Len(ret.out.digests) = 2
    /\ instr.Signatures[1].Signature # <<>>
    /\ instr.Signatures[2] = Signature(ZeroIdentity, <<>>)

====
